---- MODULE Spec2Model ----
(***************************************************************************)
(* Task registration, discovery and resolution of lm_eval/tasks/__init__.py *)
(*                                                                         *)
(* Strings are sequences of chunks: "mygroup_alpha" is                     *)
(* <<"mygroup", "_", "alpha">>.  No chunk is a prefix of another, so two   *)
(* chunk sequences are equal exactly when the strings are, and string      *)
(* concatenation is \o.                                                    *)
(* A dict is a function; {**a, **b} is Merge(a, b).                        *)
(***************************************************************************)
EXTENDS Integers, Sequences, FiniteSets, TLC

VARIABLES TASK_REGISTRY, GROUP_REGISTRY, ALL_TASKS, cache, last, ops,
          pc, todo, visited, import_fail, args, procs

vars == <<TASK_REGISTRY, GROUP_REGISTRY, ALL_TASKS, cache, last, ops,
          pc, todo, visited, import_fail, args, procs>>

(* ------------------------------------------------------------------ *)
(* Bounds                                                             *)
(* ------------------------------------------------------------------ *)
\* API calls made in one behaviour
MaxOps == 3
\* include_path calls followed file by file in one behaviour
MaxWalks == 2
\* nesting of get_task_dict calls the interpreter allows before RecursionError
MaxDepth == 4
\* include_path calls made by the processes that share the cache
MaxCalls == 3

(* ------------------------------------------------------------------ *)
(* Python values                                                      *)
(* ------------------------------------------------------------------ *)
EmptyDict == [k \in {} |-> 0]

Merge(a, b) ==
  [k \in DOMAIN a \cup DOMAIN b |-> IF k \in DOMAIN b THEN b[k] ELSE a[k]]

\* "_".join([a, b])
Join(a, b) == a \o <<"_">> \o b

\* a str value and a list value of a "task" / "group" field
Str(n) == [str |-> TRUE, s |-> n, l |-> <<>>]
List(l) == [str |-> FALSE, s |-> <<>>, l |-> l]

\* elements of a list-valued field: a bare name or an inline config record
El(n) == [isStr |-> TRUE, name |-> n, cfg |-> EmptyDict]
Ov(c) == [isStr |-> FALSE, name |-> <<>>, cfg |-> c]

\* the result of a function that may raise: err = "" when it returned
Ok(v) == [err |-> "", val |-> v]
Raise(e, v) == [err |-> e, val |-> v]

\* type(config["task"] + "ConfigurableTask", (ConfigurableTask,), {"CONFIG": ...})
SubClass(config) ==
  [kind |-> "class",
   tname |-> config["task"].s \o <<"ConfigurableTask">>,
   CONFIG |-> config]

\* the ConfigurableTask base class itself
ConfigurableTask == [kind |-> "class", tname |-> <<"ConfigurableTask">>, CONFIG |-> EmptyDict]

\* class_(config=config): an instance remembers its class and its constructor argument
\* ehn holds EVAL_HARNESS_NAME when the object has that attribute
Instantiate(class_, config) ==
  [kind |-> "instance", cls |-> class_, config |-> config, ehn |-> <<>>]

None == [kind |-> "None", cls |-> ConfigurableTask, config |-> EmptyDict, ehn |-> <<>>]

\* x is y, for task classes and task objects
Is(x, y) == x.kind = y.kind /\ x = y

(* ------------------------------------------------------------------ *)
(* lm_eval.api.registry                                               *)
(* ------------------------------------------------------------------ *)
\* the three registries as one value
Reg(T, G, A) == [T |-> T, G |-> G, A |-> A]

EmptyReg == Reg(EmptyDict, EmptyDict, {})

\* register_task(name)(cls)
register_task(R, name, cls) ==
  Reg(Merge(R.T, [k \in {name} |-> cls]), R.G, R.A \cup {name})

\* register_group(name)(cls): the task of cls joins the group
register_group(R, name, cls) ==
  IF name \in DOMAIN R.G
  THEN Reg(R.T, [R.G EXCEPT ![name] = Append(@, cls.CONFIG["task"].s)], R.A)
  ELSE Reg(R.T, Merge(R.G, [k \in {name} |-> <<cls.CONFIG["task"].s>>]), R.A \cup {name})

(* ------------------------------------------------------------------ *)
(* register_configurable_task                                         *)
(* ------------------------------------------------------------------ *)
\* config["group"] as the list the loop runs over
GroupNames(config) ==
  IF config["group"].str THEN <<config["group"].s>>
  ELSE [i \in 1..Len(config["group"].l) |-> config["group"].l[i].name]

RECURSIVE RegisterGroups(_, _, _, _)
RegisterGroups(R, names, i, cls) ==
  IF i > Len(names) THEN R
  ELSE RegisterGroups(register_group(R, names[i], cls), names, i + 1, cls)

\* the group compared with the name of the synthesized class instead of the task
CollidesWithClassName(config) == config["group"].s = SubClass(config).tname

\* the check of config["group"] against config["task"]
Collides(config) == config["group"] = config["task"]

\* a registration that leaves the factory of a name that is already registered
RegisterUnlessRegistered(R, config) ==
  IF "task" \notin DOMAIN config THEN Raise("KeyError", R)
  ELSE IF ~config["task"].str THEN Raise("TypeError", R)
  ELSE LET cls == SubClass(config)
           R1 == IF config["task"].s \in DOMAIN R.T THEN R
                 ELSE register_task(R, config["task"].s, cls)
       IN IF "group" \notin DOMAIN config THEN Ok(R1)
          ELSE IF Collides(config) THEN Raise("ValueError", R1)
          ELSE Ok(RegisterGroups(R1, GroupNames(config), 1, cls))

register_configurable_task(R, config) ==
  IF "task" \notin DOMAIN config THEN Raise("KeyError", R)
  ELSE IF ~config["task"].str THEN Raise("TypeError", R)
  ELSE LET cls == SubClass(config)
           R1 == register_task(R, config["task"].s, cls)
       IN IF "group" \notin DOMAIN config THEN Ok(R1)
          ELSE IF Collides(config) THEN Raise("ValueError", R1)
          ELSE Ok(RegisterGroups(R1, GroupNames(config), 1, cls))

(* ------------------------------------------------------------------ *)
(* Config Resolver                                                    *)
(* ------------------------------------------------------------------ *)
get_task_name_from_config(task_config) ==
  IF "dataset_path" \notin DOMAIN task_config THEN Raise("KeyError", <<>>)
  ELSE IF "dataset_name" \in DOMAIN task_config
       THEN Ok(Join(task_config["dataset_path"], task_config["dataset_name"]))
       ELSE Ok(task_config["dataset_path"])

\* prompts.load_prompt_list: the variation identifiers of a selector
load_prompt_list(use_prompt) ==
  IF use_prompt = <<"promptsource", ":", "*">> THEN << <<"p1">>, <<"p2">> >>
  ELSE IF use_prompt = <<"templates", "/", "*", ".yaml">>
       THEN << <<"templates", "/", "q1", ".yaml">>, <<"templates", "/", "p1", ".yaml">> >>
  ELSE IF use_prompt = <<"*", "/", "q1", ".yaml">>
       THEN << <<"templates", "/", "q1", ".yaml">>, <<"promptsource", "/", "q1", ".yaml">> >>
       ELSE << >>

\* s.split("/")[-1]
RECURSIVE LastSegment(_)
LastSegment(s) ==
  IF \E i \in 1..Len(s) : s[i] = "/"
  THEN LastSegment(Tail(s))
  ELSE s

\* every variation that is a file reduced to its extension
VariationExtension(prompt_variation) ==
  IF \E i \in 1..Len(prompt_variation) : prompt_variation[i] = ".yaml"
  THEN <<".yaml">>
  ELSE prompt_variation

\* the second operand of the "_".join in check_prompt_config
VariationShortName(prompt_variation) ==
  IF \E i \in 1..Len(prompt_variation) : prompt_variation[i] = ".yaml"
  THEN LastSegment(prompt_variation)
  ELSE prompt_variation

check_prompt_config(config) ==
  IF "use_prompt" \notin DOMAIN config THEN Ok(<<config>>)
  ELSE IF "dataset_path" \notin DOMAIN config THEN Raise("KeyError", <<>>)
  ELSE LET prompt_list == load_prompt_list(config["use_prompt"])
           base == IF "task" \in DOMAIN config THEN Ok(config["task"])
                   ELSE LET n == get_task_name_from_config(config)
                        IN Ok(Str(n.val))
       IN IF prompt_list = <<>> THEN Ok(<<>>)
          ELSE IF ~base.val.str THEN Raise("TypeError", <<>>)
          ELSE Ok([idx \in 1..Len(prompt_list) |->
                    Merge(config,
                          [use_prompt |-> prompt_list[idx],
                           task |-> Str(Join(base.val.s, VariationShortName(prompt_list[idx]))),
                           output_type |-> <<"generate_until">>])])

(* ------------------------------------------------------------------ *)
(* utils                                                              *)
(* ------------------------------------------------------------------ *)
\* the chunks in string order
ChunkRank ==
  [c \in {"*", ".yaml", "/", ":", "ConfigurableTask", "Custom", "_", "alpha", "beta",
          "dp", "gamma", "mygroup", "p1", "p2", "promptsource", "q1", "sub", "super",
          "templates"} |->
     CASE c = "*" -> 1 [] c = ".yaml" -> 2 [] c = "/" -> 3 [] c = ":" -> 4
       [] c = "ConfigurableTask" -> 5 [] c = "Custom" -> 6 [] c = "_" -> 7
       [] c = "alpha" -> 8 [] c = "beta" -> 9 [] c = "dp" -> 10 [] c = "gamma" -> 11
       [] c = "mygroup" -> 12 [] c = "p1" -> 13 [] c = "p2" -> 14
       [] c = "promptsource" -> 15 [] c = "q1" -> 16 [] c = "sub" -> 17
       [] c = "super" -> 18 [] c = "templates" -> 19]

\* a < b on strings
RECURSIVE StrLess(_, _)
StrLess(a, b) ==
  IF b = <<>> THEN FALSE
  ELSE IF a = <<>> THEN TRUE
  ELSE IF Head(a) = Head(b) THEN StrLess(Tail(a), Tail(b))
  ELSE ChunkRank[Head(a)] < ChunkRank[Head(b)]

\* sorted(list(S))
RECURSIVE Sorted(_)
Sorted(S) ==
  IF S = {} THEN <<>>
  ELSE LET m == CHOOSE x \in S : \A y \in S \ {x} : StrLess(x, y)
       IN <<m>> \o Sorted(S \ {m})

\* fnmatch of one name against one pattern: a literal, or a prefix followed by "*"
FnMatch(name, pattern) ==
  IF pattern # <<>> /\ pattern[Len(pattern)] = "*"
  THEN /\ Len(name) >= Len(pattern) - 1
       /\ SubSeq(name, 1, Len(pattern) - 1) = SubSeq(pattern, 1, Len(pattern) - 1)
  ELSE name = pattern

\* utils.pattern_match(patterns, source_list)
pattern_match(patterns, source_list) ==
  Sorted({n \in source_list : \E i \in 1..Len(patterns) : FnMatch(n, patterns[i])})

\* utils.load_yaml_config(yaml_path, task_config) of a record that has no include
load_yaml_config(task_config) == task_config

\* TaskConfig.to_dict(keep_callable=True)
to_dict(CONFIG) == CONFIG

(* ------------------------------------------------------------------ *)
(* register_configurable_group                                        *)
(* ------------------------------------------------------------------ *)
\* [x for x in seq if keep(x)]
RECURSIVE FilterEls(_, _)
FilterEls(seq, wantStr) ==
  IF seq = <<>> THEN <<>>
  ELSE IF Head(seq).isStr = wantStr
       THEN <<Head(seq)>> \o FilterEls(Tail(seq), wantStr)
       ELSE FilterEls(Tail(seq), wantStr)

\* for config in var_configs: register_configurable_task(config)
RECURSIVE RegisterAll(_, _, _)
RegisterAll(R, configs, i) ==
  IF i > Len(configs) THEN Ok(R)
  ELSE LET Rest(r) == IF r.err # "" THEN r ELSE RegisterAll(r.val, configs, i + 1)
       IN Rest(register_configurable_task(R, configs[i]))

\* the merge with the base config after the inline record
MergedConfigBaseWins(base_config, task_config, group, task_name_config) ==
  Merge(Merge(Merge(task_config, base_config), [k \in {"group"} |-> group]),
        task_name_config)

\* the dict handed to check_prompt_config for one inline record
MergedConfig(base_config, task_config, group, task_name_config) ==
  Merge(Merge(Merge(base_config, task_config), [k \in {"group"} |-> group]),
        task_name_config)

\* one round of the loop over config_list
ExpandOverride(R, group, task_config) ==
  LET named == "task" \in DOMAIN task_config
      known == named /\ task_config["task"].s \in R.A
  IN IF named /\ ~task_config["task"].str THEN Raise("TypeError", R)
     ELSE IF known /\ task_config["task"].s \notin DOMAIN R.T THEN Raise("KeyError", R)
     ELSE LET base_config == IF known THEN to_dict(R.T[task_config["task"].s].CONFIG)
                             ELSE EmptyDict
              task_name_config ==
                IF known
                THEN [k \in {"task"} |-> Str(Join(group.s, task_config["task"].s))]
                ELSE EmptyDict
              Register(var_configs) ==
                IF var_configs.err # "" THEN Raise(var_configs.err, R)
                ELSE RegisterAll(R, var_configs.val, 1)
          IN Register(check_prompt_config(
                 MergedConfig(base_config, load_yaml_config(task_config), group,
                              task_name_config)))

RECURSIVE ExpandOverrides(_, _, _, _)
ExpandOverrides(R, group, config_list, i) ==
  IF i > Len(config_list) THEN Ok(R)
  ELSE LET Rest(r) ==
             IF r.err # "" THEN r ELSE ExpandOverrides(r.val, group, config_list, i + 1)
       IN Rest(ExpandOverride(R, group, config_list[i].cfg))

\* the loop over task_names with the membership list replaced at every match
RECURSIVE LinkMembersOverwriting(_, _, _, _)
LinkMembersOverwriting(R, group, task_names, i) ==
  IF i > Len(task_names) THEN R
  ELSE LET task == task_names[i]
           R1 == IF task \in DOMAIN R.T \/ task \in DOMAIN R.G
                 THEN Reg(R.T, Merge(R.G, [k \in {group} |-> <<task>>]),
                          R.A \cup {group})
                 ELSE R
       IN LinkMembersOverwriting(R1, group, task_names, i + 1)

\* the loop over task_names
RECURSIVE LinkMembers(_, _, _, _)
LinkMembers(R, group, task_names, i) ==
  IF i > Len(task_names) THEN R
  ELSE LET task == task_names[i]
           R1 == IF task \in DOMAIN R.T \/ task \in DOMAIN R.G
                 THEN IF group \in DOMAIN R.G
                      THEN Reg(R.T, [R.G EXCEPT ![group] = Append(@, task)], R.A)
                      ELSE Reg(R.T, Merge(R.G, [k \in {group} |-> <<task>>]),
                               R.A \cup {group})
                 ELSE R
       IN LinkMembers(R1, group, task_names, i + 1)

register_configurable_group(R, config) ==
  IF "group" \notin DOMAIN config THEN Raise("KeyError", R)
  ELSE LET group == config["group"]
           all_task_list == config["task"].l
           config_list == FilterEls(all_task_list, FALSE)
           task_list == FilterEls(all_task_list, TRUE)
           Link(r) ==
             IF r.err # "" THEN r
             ELSE Ok(LinkMembers(r.val, group.s,
                                 pattern_match([i \in 1..Len(task_list) |-> task_list[i].name],
                                               r.val.A), 1))
       IN Link(ExpandOverrides(R, group, config_list, 1))

(* ------------------------------------------------------------------ *)
(* lm_eval.caching.cache                                              *)
(* ------------------------------------------------------------------ *)
task_registry_file_name == <<"registry-", "TASK_REGISTRY">>
cached_group_registry_file_name == <<"registry-", "GROUP_REGISTRY">>
cached_all_tasks_file_name == <<"registry-", "ALL_TASKS">>

\* f"raw-{task_name}"
cache_key(task_name) == <<"raw-">> \o task_name

\* load_from_cache(file_name): the stored object, or nothing
load_from_cache(c, file_name) ==
  IF file_name \in DOMAIN c THEN [present |-> TRUE, val |-> c[file_name]]
  ELSE [present |-> FALSE, val |-> EmptyDict]

\* save_to_cache(file_name, obj)
save_to_cache(c, file_name, obj) == Merge(c, [k \in {file_name} |-> obj])

\* truth value of a loaded dict and of a loaded set
TruthyDict(x) == x.present /\ DOMAIN x.val # {}
TruthySet(x) == x.present /\ x.val # {}

(* ------------------------------------------------------------------ *)
(* include_task_folder                                                *)
(* ------------------------------------------------------------------ *)
\* one pass that registers tasks and groups alike, in walk order
RECURSIVE RegisterConfigsOnePass(_, _, _, _)
RegisterConfigsOnePass(R, all_configs, i, register_task_flag) ==
  IF i > Len(all_configs) THEN Ok(R)
  ELSE LET config == all_configs[i]
           Rest(r) ==
             IF r.err # "" THEN r
             ELSE RegisterConfigsOnePass(r.val, all_configs, i + 1, register_task_flag)
       IN Rest(IF config["task"].str THEN register_configurable_task(R, config)
               ELSE register_configurable_group(R, config))

\* groups registered by the first pass as well, the second pass registering nothing
RECURSIVE RegisterConfigsInFirstPass(_, _, _, _)
RegisterConfigsInFirstPass(R, all_configs, i, register_task_flag) ==
  IF i > Len(all_configs) THEN Ok(R)
  ELSE LET config == all_configs[i]
           Rest(r) ==
             IF r.err # "" THEN r
             ELSE RegisterConfigsInFirstPass(r.val, all_configs, i + 1,
                                             register_task_flag)
       IN Rest(IF register_task_flag
               THEN IF config["task"].str THEN register_configurable_task(R, config)
                    ELSE register_configurable_group(R, config)
               ELSE Ok(R))

\* for config in all_configs: the body selected by register_task
RECURSIVE RegisterConfigs(_, _, _, _)
RegisterConfigs(R, all_configs, i, register_task_flag) ==
  IF i > Len(all_configs) THEN Ok(R)
  ELSE LET config == all_configs[i]
           Rest(r) ==
             IF r.err # "" THEN r
             ELSE RegisterConfigs(r.val, all_configs, i + 1, register_task_flag)
       IN Rest(IF register_task_flag
               THEN IF config["task"].str THEN register_configurable_task(R, config)
                    ELSE Ok(R)
               ELSE IF ~config["task"].str THEN register_configurable_group(R, config)
                    ELSE Ok(R))

\* the try block for one .yaml file
TryFile(R, f, register_task_flag) ==
  IF f.load # "ok" THEN Raise(f.load, R)
  ELSE IF "task" \notin DOMAIN f.config THEN Ok(R)
  ELSE LET Register(all_configs) ==
             IF all_configs.err # "" THEN Raise(all_configs.err, R)
             ELSE RegisterConfigs(R, all_configs.val, 1, register_task_flag)
       IN Register(check_prompt_config(f.config))

\* the second except clause left out
HandlerImportOnly(err) ==
  IF err \in {"ImportError", "ModuleNotFoundError"} THEN "debug" ELSE "propagate"

\* the except clauses: which one takes an error raised in the try block
Handler(err) ==
  IF err \in {"ImportError", "ModuleNotFoundError"} THEN "debug"
  ELSE IF err \in {"KeyError", "TypeError", "ValueError", "ScannerError", "RecursionError"}
       THEN "warning"
       ELSE "propagate"

\* one iteration of "for f in file_list"
WalkFile(R, f, register_task_flag) ==
  IF ~f.yaml THEN [R |-> R, outcome |-> "skip", err |-> ""]
  ELSE LET Handled(r) ==
             [R |-> r.val,
              outcome |-> IF r.err = "" THEN "ok" ELSE Handler(r.err),
              err |-> r.err]
       IN Handled(TryFile(R, f, register_task_flag))

\* include_task_folder(task_dir, register_task) over the files in walk order
RECURSIVE include_task_folder(_, _, _, _, _)
include_task_folder(R, file_list, i, register_task_flag, failed) ==
  IF i > Len(file_list) THEN [R |-> R, import_fail |-> failed, err |-> ""]
  ELSE LET Rest(w) ==
             IF w.outcome = "propagate"
             THEN [R |-> w.R, import_fail |-> failed, err |-> w.err]
             ELSE include_task_folder(w.R, file_list, i + 1, register_task_flag,
                                      failed \/ w.outcome = "debug")
       IN Rest(WalkFile(R, file_list[i], register_task_flag))

(* ------------------------------------------------------------------ *)
(* include_path                                                       *)
(* ------------------------------------------------------------------ *)
caches_exist(c) ==
  /\ TruthyDict(load_from_cache(c, task_registry_file_name))
  /\ TruthyDict(load_from_cache(c, cached_group_registry_file_name))
  /\ TruthySet(load_from_cache(c, cached_all_tasks_file_name))

\* the branch that returns the cached registries
RestoresFromCache(c, rewrite_cache) == ~rewrite_cache /\ caches_exist(c)

\* the restore without the loop over cached_all_tasks
RestoreWithoutNames(R, c) ==
  Reg(Merge(R.T, c[task_registry_file_name]),
      Merge(R.G, c[cached_group_registry_file_name]),
      R.A)

\* the three loops that copy the cached registries into the live ones
RestoreRegistries(R, c) ==
  Reg(Merge(R.T, c[task_registry_file_name]),
      Merge(R.G, c[cached_group_registry_file_name]),
      R.A \cup c[cached_all_tasks_file_name])

\* the guard of the three save_to_cache calls
WritesCache(c, use_cache, rewrite_cache) == use_cache /\ (~caches_exist(c) \/ rewrite_cache)

SaveRegistries(c, R) ==
  save_to_cache(
    save_to_cache(
      save_to_cache(c, task_registry_file_name, R.T),
      cached_group_registry_file_name, R.G),
    cached_all_tasks_file_name, R.A)

\* include_path(task_dir, use_cache, rewrite_cache); walk1 and walk2 are the orders
\* in which the two passes meet the files of task_dir
include_path(R, c, walk1, walk2, use_cache, rewrite_cache) ==
  IF RestoresFromCache(c, rewrite_cache)
  THEN [R |-> RestoreRegistries(R, c), cache |-> c, err |-> "", walked |-> FALSE]
  ELSE LET Save(p2) ==
             IF p2.err # "" THEN [R |-> p2.R, cache |-> c, err |-> p2.err, walked |-> TRUE]
             ELSE [R |-> p2.R,
                   cache |-> IF WritesCache(c, use_cache, rewrite_cache)
                             THEN SaveRegistries(c, p2.R) ELSE c,
                   err |-> "", walked |-> TRUE]
           SecondPass(p1) ==
             IF p1.err # "" THEN [R |-> p1.R, cache |-> c, err |-> p1.err, walked |-> TRUE]
             ELSE Save(include_task_folder(p1.R, walk2, 1, FALSE, FALSE))
       IN SecondPass(include_task_folder(R, walk1, 1, TRUE, FALSE))

(* ------------------------------------------------------------------ *)
(* Resolution Engine                                                  *)
(* ------------------------------------------------------------------ *)
\* the elements of task_name_list
ReqStr(n) == [kind |-> "str", name |-> n, cfg |-> EmptyDict, obj |-> None]
ReqDict(c) == [kind |-> "dict", name |-> <<>>, cfg |-> c, obj |-> None]
ReqTask(o) == [kind |-> "task", name |-> <<>>, cfg |-> EmptyDict, obj |-> o]

\* the values of a result mapping: a bare instance has groups = <<>>, the pair
\* (group_name, v) puts group_name in front of v's groups, and None ends a pair
\* the pair built without the resolved instance
PairWithoutInstance(group_name, v) ==
  [groups |-> <<group_name>> \o v.groups, inst |-> None]

Plain(inst) == [groups |-> <<>>, inst |-> inst]
Pair(group_name, v) == [groups |-> <<group_name>> \o v.groups, inst |-> v.inst]

\* what a call has done so far: the cache, the factory calls, the save_to_cache calls
Effects(c, calls, saves) == [cache |-> c, calls |-> calls, saves |-> saves]

\* a lookup that answers None for a missing name
get_task_or_none(R, task_name, config) ==
  IF task_name \in DOMAIN R.T
  THEN Ok(Instantiate(R.T[task_name], config))
  ELSE Ok(None)

get_task(R, task_name, config) ==
  IF task_name \in DOMAIN R.T
  THEN Ok(Instantiate(R.T[task_name], config))
  ELSE Raise("KeyError", None)

\* the comparison in the loop of get_task_name_from_object
SameObject(class_, task_object) == Is(class_, task_object)

get_task_name_from_object(R, task_object) ==
  IF \E name \in DOMAIN R.T : SameObject(R.T[name], task_object)
  THEN CHOOSE name \in DOMAIN R.T : SameObject(R.T[name], task_object)
  ELSE IF task_object.ehn # <<>> THEN task_object.ehn[1]
       ELSE task_object.cls.tname

\* the keyword arguments of the recursive call made for a group member
MemberOverrides(config) == EmptyDict

\* the cache never consulted
CacheNeverHit(cached) == FALSE

\* the test made on the object loaded from the cache
CacheHit(cached) == TruthyDict(cached)

\* the object stored under raw-{task_name}
CachedObject(task_name_from_registry_dict, task_name) == task_name_from_registry_dict

\* the assertion before the return
Disjoint(registry_dict, object_dict) == DOMAIN registry_dict \cap DOMAIN object_dict = {}

RECURSIVE get_task_dict(_, _, _, _, _)
RECURSIVE ResolveMembers(_, _, _, _, _, _, _)
RECURSIVE ResolveElements(_, _, _, _, _, _)

\* acc: the three dicts, the effects and the error raised so far
Acc(reg, cfg, obj, fx, err) == [reg |-> reg, cfg |-> cfg, obj |-> obj, fx |-> fx, err |-> err]

\* the loop over the members with the nested call made for the group, not the member
RECURSIVE ResolveGroupAgain(_, _, _, _, _, _, _)
ResolveGroupAgain(R, group_name, members, j, config, acc, depth) ==
  IF j > Len(members) \/ acc.err # "" THEN acc
  ELSE LET task_name == members[j]
       IN IF task_name \in DOMAIN acc.reg
          THEN ResolveGroupAgain(R, group_name, members, j + 1, config, acc, depth)
          ELSE LET task_dict(task_obj) ==
                     IF task_name \in DOMAIN task_obj
                     THEN [k \in {task_name} |-> Pair(group_name, task_obj[task_name])]
                     ELSE Merge([k \in {task_name} |-> Pair(group_name, Plain(None))],
                                task_obj)
                   Rest(r) ==
                     IF r.err # "" THEN Acc(acc.reg, acc.cfg, acc.obj, r.fx, r.err)
                     ELSE ResolveGroupAgain(R, group_name, members, j + 1, config,
                                            Acc(Merge(acc.reg, task_dict(r.ret)), acc.cfg,
                                                acc.obj, r.fx, ""),
                                            depth)
               IN Rest(get_task_dict(R, <<ReqStr(group_name)>>, MemberOverrides(config),
                                     acc.fx, depth + 1))

\* for task_name in GROUP_REGISTRY[task_element]
ResolveMembers(R, group_name, members, j, config, acc, depth) ==
  IF j > Len(members) \/ acc.err # "" THEN acc
  ELSE LET task_name == members[j]
       IN IF task_name \in DOMAIN acc.reg
          THEN ResolveMembers(R, group_name, members, j + 1, config, acc, depth)
          ELSE LET task_dict(task_obj) ==
                     IF task_name \in DOMAIN task_obj
                     THEN [k \in {task_name} |-> Pair(group_name, task_obj[task_name])]
                     ELSE Merge([k \in {task_name} |-> Pair(group_name, Plain(None))],
                                task_obj)
                   Rest(r) ==
                     IF r.err # "" THEN Acc(acc.reg, acc.cfg, acc.obj, r.fx, r.err)
                     ELSE ResolveMembers(R, group_name, members, j + 1, config,
                                         Acc(Merge(acc.reg, task_dict(r.ret)), acc.cfg,
                                             acc.obj, r.fx, ""),
                                         depth)
               IN Rest(get_task_dict(R, <<ReqStr(task_name)>>, MemberOverrides(config),
                                     acc.fx, depth + 1))

\* the branch of a plain name that is not a group
ResolvePlain(R, task_name, config, acc) ==
  IF task_name \in DOMAIN acc.reg THEN acc
  ELSE LET cached == load_from_cache(acc.fx.cache, cache_key(task_name))
       IN IF CacheHit(cached)
          THEN Acc(Merge(acc.reg, cached.val), acc.cfg, acc.obj, acc.fx, "")
          ELSE LET t == get_task(R, task_name, config)
                   reg == Merge(acc.reg, [k \in {task_name} |-> Plain(t.val)])
                   obj == CachedObject(reg, task_name)
               IN IF t.err # "" THEN Acc(acc.reg, acc.cfg, acc.obj, acc.fx, t.err)
                  ELSE Acc(reg, acc.cfg, acc.obj,
                           Effects(save_to_cache(acc.fx.cache, cache_key(task_name), obj),
                                   Append(acc.fx.calls,
                                          [name |-> task_name, config |-> config]),
                                   Append(acc.fx.saves,
                                          [name |-> task_name, obj |-> obj])),
                           "")

\* the branch of an inline config record
ResolveDict(task_element, config, acc) ==
  LET e == Merge(task_element, config)
      n == get_task_name_from_config(e)
  IN IF n.err # "" THEN Acc(acc.reg, acc.cfg, acc.obj, acc.fx, n.err)
     ELSE Acc(acc.reg,
              Merge(acc.cfg, [k \in {n.val} |-> Plain(Instantiate(ConfigurableTask, e))]),
              acc.obj, acc.fx, "")

\* the branch of a live task instance
ResolveObject(R, task_element, acc) ==
  Acc(acc.reg, acc.cfg,
      Merge(acc.obj,
            [k \in {get_task_name_from_object(R, task_element)} |-> Plain(task_element)]),
      acc.fx, "")

\* for task_element in task_name_list
ResolveElements(R, task_name_list, i, config, acc, depth) ==
  IF i > Len(task_name_list) \/ acc.err # "" THEN acc
  ELSE LET task_element == task_name_list[i]
           next ==
             IF task_element.kind = "str"
             THEN IF task_element.name \in DOMAIN R.G
                  THEN ResolveMembers(R, task_element.name, R.G[task_element.name], 1,
                                      config, acc, depth)
                  ELSE ResolvePlain(R, task_element.name, config, acc)
             ELSE IF task_element.kind = "dict"
                  THEN ResolveDict(task_element.cfg, config, acc)
                  ELSE ResolveObject(R, task_element.obj, acc)
       IN ResolveElements(R, task_name_list, i + 1, config, next, depth)

\* get_task_dict(task_name_list, **kwargs), started with the effects fx at nesting depth
get_task_dict(R, task_name_list, kwargs, fx, depth) ==
  IF depth > MaxDepth
  THEN [err |-> "RecursionError", ret |-> EmptyDict, reg |-> EmptyDict,
        cfg |-> EmptyDict, obj |-> EmptyDict, fx |-> fx]
  ELSE LET Return(acc, err) ==
             [err |-> err,
              ret |-> IF err = "" THEN Merge(Merge(acc.reg, acc.cfg), acc.obj)
                      ELSE EmptyDict,
              reg |-> acc.reg, cfg |-> acc.cfg, obj |-> acc.obj, fx |-> acc.fx]
           Check(acc) ==
             Return(acc, IF acc.err # "" THEN acc.err
                         ELSE IF ~Disjoint(acc.reg, acc.obj) THEN "AssertionError"
                         ELSE "")
       IN Check(ResolveElements(R, task_name_list, 1, kwargs,
                                Acc(EmptyDict, EmptyDict, EmptyDict, fx, ""), depth))

(* ------------------------------------------------------------------ *)
(* Definition files and requests                                      *)
(* ------------------------------------------------------------------ *)
Yaml(c) == [yaml |-> TRUE, load |-> "ok", config |-> c]
Unloadable(e) == [yaml |-> TRUE, load |-> e, config |-> EmptyDict]
NotYaml == [yaml |-> FALSE, load |-> "ok", config |-> EmptyDict]

FAlpha == Yaml([task |-> Str(<<"alpha">>), dataset_path |-> <<"dp">>])
FBeta == Yaml([task |-> Str(<<"beta">>), dataset_path |-> <<"dp">>, group |-> Str(<<"sub">>)])
FGroup == Yaml([group |-> Str(<<"mygroup">>),
                task |-> List(<<El(<<"alpha">>), El(<<"beta">>)>>)])
FSuper == Yaml([group |-> Str(<<"super">>),
                task |-> List(<<El(<<"mygroup">>), El(<<"sub">>)>>)])
FOver == Yaml([group |-> Str(<<"mygroup">>),
               task |-> List(<<Ov([task |-> Str(<<"alpha">>), num_fewshot |-> 5])>>)])
\* beta declares two groups: its group field is a sequence
FBetaBoth == Yaml([task |-> Str(<<"beta">>), dataset_path |-> <<"dp">>,
                   group |-> List(<<El(<<"sub">>), El(<<"mygroup">>)>>)])
\* a group definition that lists the name of its own group
FSelf == Yaml([group |-> Str(<<"mygroup">>), task |-> List(<<El(<<"mygroup">>)>>)])
\* the inline record redefines a field of alpha and names a group of its own
FOverData == Yaml([group |-> Str(<<"mygroup">>),
                   task |-> List(<<Ov([task |-> Str(<<"alpha">>),
                                       dataset_path |-> <<"q1">>,
                                       group |-> Str(<<"sub">>)])>>)])
\* the inline record asks for prompt variations of alpha
FOverPrompt == Yaml([group |-> Str(<<"mygroup">>),
                     task |-> List(<<Ov([task |-> Str(<<"alpha">>),
                                         use_prompt |-> <<"promptsource", ":", "*">>])>>)])
FCollide == Yaml([task |-> Str(<<"gamma">>), group |-> Str(<<"gamma">>),
                  dataset_path |-> <<"dp">>])
FPrompt == Yaml([task |-> Str(<<"beta">>), dataset_path |-> <<"dp">>,
                 use_prompt |-> <<"promptsource", ":", "*">>])
FPromptNoData == Yaml([task |-> Str(<<"gamma">>),
                       use_prompt |-> <<"promptsource", ":", "*">>])
FNoTask == Yaml([dataset_path |-> <<"dp">>])
\* beta declares itself a member of the group that FGroup defines
FBetaMember == Yaml([task |-> Str(<<"beta">>), dataset_path |-> <<"dp">>,
                     group |-> Str(<<"mygroup">>)])
FImport == Unloadable("ImportError")
FBroken == Unloadable("ScannerError")

\* the directories handed to include_path
Dirs ==
  { {FAlpha, FBeta, FGroup},
    {FBeta, FGroup, FSuper},
    {FAlpha, FOver, FCollide},
    {FImport, FPromptNoData, FAlpha},
    {FBroken, FPrompt, NotYaml},
    {FNoTask, FAlpha},
    {FAlpha, FBetaMember, FGroup},
    {FAlpha, FOverData, FOverPrompt},
    {FBetaBoth, FSelf} }

\* the directories whose files all load and define a task without prompt variations
LoadableDirs == {dir \in Dirs : \A f \in dir : f.yaml /\ f.load = "ok"
                                            /\ "use_prompt" \notin DOMAIN f.config
                                            /\ "task" \in DOMAIN f.config}

\* the orders in which os.walk can list the files of a directory
Walks(dir) ==
  {w \in [1..Cardinality(dir) -> dir] : \A f \in dir : \E i \in DOMAIN w : w[i] = f}

Overrides == {EmptyDict, [num_fewshot |-> 5]}

\* a task object of a class that is in no registry and declares EVAL_HARNESS_NAME
CustomTask ==
  [kind |-> "instance",
   cls |-> [kind |-> "class", tname |-> <<"Custom">>, CONFIG |-> EmptyDict],
   config |-> EmptyDict, ehn |-> << <<"alpha">> >>]

\* the request lists handed to get_task_dict, given the registered factories
Requests(T) ==
  { <<ReqStr(<<"alpha">>)>>,
    <<ReqStr(<<"gamma">>)>>,
    <<ReqStr(<<"alpha">>), ReqStr(<<"beta">>)>>,
    <<ReqStr(<<"mygroup">>)>>,
    <<ReqStr(<<"super">>)>>,
    <<ReqStr(<<"mygroup">>), ReqStr(<<"beta">>)>>,
    <<ReqDict([dataset_path |-> <<"dp">>, dataset_name |-> <<"alpha">>]),
      ReqStr(<<"alpha">>)>>,
    <<ReqStr(<<"alpha">>), ReqTask(CustomTask)>> }
  \cup { <<ReqStr(n), ReqTask(Instantiate(T[n], EmptyDict))>> : n \in DOMAIN T }

(* ------------------------------------------------------------------ *)
(* State                                                              *)
(* ------------------------------------------------------------------ *)
Registries == Reg(TASK_REGISTRY, GROUP_REGISTRY, ALL_TASKS)

SetRegistries(R) ==
  /\ TASK_REGISTRY' = R.T
  /\ GROUP_REGISTRY' = R.G
  /\ ALL_TASKS' = R.A

\* the locals of include_path while no call is running
NoArgs == [dir |-> {}, use_cache |-> FALSE, rewrite_cache |-> FALSE,
           caches_exist |-> FALSE]

NoCall == [op |-> "none", err |-> ""]

\* the processes that run at the same time and share the cache
Procs == {1, 2}

\* a process that is not inside include_path: snap holds what its three
\* load_from_cache calls returned, R its registries
NoProc == [pc |-> "idle", dir |-> {}, use_cache |-> FALSE, rewrite_cache |-> FALSE,
           snap |-> EmptyDict, R |-> EmptyReg]

Init ==
  /\ TASK_REGISTRY = EmptyDict
  /\ GROUP_REGISTRY = EmptyDict
  /\ ALL_TASKS = {}
  /\ cache = EmptyDict
  /\ last = NoCall
  /\ ops = 0
  /\ pc = "idle"
  /\ todo = <<>>
  /\ visited = <<>>
  /\ import_fail = FALSE
  /\ args = NoArgs
  /\ procs = [p \in Procs |-> NoProc]

Idle == pc = "idle" /\ ops < MaxOps

WalkerUnchanged == UNCHANGED <<pc, todo, visited, import_fail, args, procs>>

(* ------------------------------------------------------------------ *)
(* Calls made by the process                                          *)
(* ------------------------------------------------------------------ *)
\* register_configurable_task(config)
RegisterTask(config) ==
  /\ Idle
  /\ LET Done(r) ==
           /\ SetRegistries(r.val)
           /\ last' = [op |-> "register_configurable_task", config |-> config,
                       err |-> r.err, before |-> Registries]
     IN Done(register_configurable_task(Registries, config))
  /\ ops' = ops + 1
  /\ UNCHANGED cache
  /\ WalkerUnchanged

\* include_path(task_dir, use_cache, rewrite_cache), run to its end
IncludePath(dir, walk1, walk2, use_cache, rewrite_cache) ==
  /\ Idle
  /\ LET Done(r) ==
           /\ SetRegistries(r.R)
           /\ cache' = r.cache
           /\ last' = [op |-> "include_path", dir |-> dir, err |-> r.err,
                       walked |-> r.walked, use_cache |-> use_cache,
                       rewrite_cache |-> rewrite_cache, before |-> Registries]
     IN Done(include_path(Registries, cache, walk1, walk2, use_cache, rewrite_cache))
  /\ ops' = ops + 1
  /\ WalkerUnchanged

\* a resolution that registers the tasks it builds from inline config records
GetTaskDictRegistering(task_name_list, kwargs) ==
  /\ Idle
  /\ LET Done(r) ==
           /\ cache' = r.fx.cache
           /\ SetRegistries(Reg(Merge(TASK_REGISTRY,
                                      [k \in DOMAIN r.cfg |-> r.cfg[k].inst.cls]),
                                GROUP_REGISTRY, ALL_TASKS \cup DOMAIN r.cfg))
           /\ last' = [op |-> "get_task_dict", task_name_list |-> task_name_list,
                       kwargs |-> kwargs, err |-> r.err, ret |-> r.ret,
                       reg |-> r.reg, cfg |-> r.cfg, obj |-> r.obj,
                       calls |-> r.fx.calls, saves |-> r.fx.saves, cache0 |-> cache]
     IN Done(get_task_dict(Registries, task_name_list, kwargs,
                           Effects(cache, <<>>, <<>>), 1))
  /\ ops' = ops + 1
  /\ WalkerUnchanged

\* get_task_dict(task_name_list, **kwargs)
GetTaskDict(task_name_list, kwargs) ==
  /\ Idle
  /\ LET Done(r) ==
           /\ cache' = r.fx.cache
           /\ last' = [op |-> "get_task_dict", task_name_list |-> task_name_list,
                       kwargs |-> kwargs, err |-> r.err, ret |-> r.ret,
                       reg |-> r.reg, cfg |-> r.cfg, obj |-> r.obj,
                       calls |-> r.fx.calls, saves |-> r.fx.saves, cache0 |-> cache]
     IN Done(get_task_dict(Registries, task_name_list, kwargs,
                           Effects(cache, <<>>, <<>>), 1))
  /\ ops' = ops + 1
  /\ UNCHANGED <<TASK_REGISTRY, GROUP_REGISTRY, ALL_TASKS>>
  /\ WalkerUnchanged

\* the process ends and another one starts: the registries are module globals,
\* the cache is on disk
Restart ==
  /\ Idle
  /\ Registries # EmptyReg
  /\ SetRegistries(EmptyReg)
  /\ last' = [op |-> "restart", err |-> ""]
  /\ UNCHANGED <<cache, ops>>
  /\ WalkerUnchanged

Next ==
  \/ \E dir \in LoadableDirs : \E walk \in Walks(dir) :
       \E use_cache \in BOOLEAN, rewrite_cache \in BOOLEAN :
         IncludePath(dir, walk, walk, use_cache, rewrite_cache)
  \/ \E task_name_list \in Requests(TASK_REGISTRY), kwargs \in Overrides :
       GetTaskDict(task_name_list, kwargs)
  \/ Restart

Spec == Init /\ [][Next]_vars

(* ------------------------------------------------------------------ *)
(* include_path followed file by file                                 *)
(* ------------------------------------------------------------------ *)
Walking == pc \in {"pass1", "pass2"}

\* the call, up to the return of the cached registries or the start of pass 1
StartIncludePath(dir, walk, use_cache, rewrite_cache) ==
  /\ pc = "idle"
  /\ ops < MaxWalks
  /\ ops' = ops + 1
  /\ UNCHANGED <<cache, visited, import_fail, procs>>
  /\ IF RestoresFromCache(cache, rewrite_cache)
     THEN /\ SetRegistries(RestoreRegistries(Registries, cache))
          /\ last' = [op |-> "include_path", dir |-> dir, err |-> "", walked |-> FALSE,
                      use_cache |-> use_cache, rewrite_cache |-> rewrite_cache,
                      before |-> Registries]
          /\ UNCHANGED <<pc, todo, args>>
     ELSE /\ pc' = "pass1"
          /\ todo' = walk
          /\ args' = [dir |-> dir, use_cache |-> use_cache,
                      rewrite_cache |-> rewrite_cache,
                      caches_exist |-> caches_exist(cache)]
          /\ last' = [op |-> "start", err |-> ""]
          /\ UNCHANGED <<TASK_REGISTRY, GROUP_REGISTRY, ALL_TASKS>>

\* one iteration of the loop over file_list, in either pass
StepFile ==
  /\ Walking
  /\ todo # <<>>
  /\ LET Done(w) ==
           /\ SetRegistries(w.R)
           /\ import_fail' = (import_fail \/ w.outcome = "debug")
           /\ pc' = IF w.outcome = "propagate" THEN "raised" ELSE pc
           /\ last' = [op |-> "file", file |-> Head(todo), pass |-> pc,
                       outcome |-> w.outcome, err |-> w.err, before |-> Registries]
     IN Done(WalkFile(Registries, Head(todo), pc = "pass1"))
  /\ todo' = Tail(todo)
  /\ visited' = Append(visited, Head(todo))
  /\ UNCHANGED <<cache, ops, args, procs>>

\* include_task_folder(task_dir) returns and include_task_folder(task_dir,
\* register_task=False) lists the directory again
EndPass1(walk) ==
  /\ pc = "pass1"
  /\ todo = <<>>
  /\ pc' = "pass2"
  /\ todo' = walk
  /\ import_fail' = FALSE
  /\ last' = [op |-> "pass1_done", err |-> ""]
  /\ UNCHANGED <<TASK_REGISTRY, GROUP_REGISTRY, ALL_TASKS, cache, ops, args, visited,
                 procs>>

\* the second pass returns; the registries are saved when asked for
EndPass2 ==
  /\ pc = "pass2"
  /\ todo = <<>>
  /\ pc' = "idle"
  /\ cache' = IF args.use_cache /\ (~args.caches_exist \/ args.rewrite_cache)
              THEN SaveRegistries(cache, Registries) ELSE cache
  /\ last' = [op |-> "include_path", dir |-> args.dir, err |-> "", walked |-> TRUE,
              use_cache |-> args.use_cache, rewrite_cache |-> args.rewrite_cache,
              before |-> Registries]
  /\ visited' = <<>>
  /\ args' = NoArgs
  /\ UNCHANGED <<TASK_REGISTRY, GROUP_REGISTRY, ALL_TASKS, ops, todo, import_fail, procs>>

WalkNext ==
  \/ \E dir \in Dirs : \E walk \in Walks(dir) :
       \E use_cache \in BOOLEAN, rewrite_cache \in BOOLEAN :
         StartIncludePath(dir, walk, use_cache, rewrite_cache)
  \/ StepFile
  \/ \E walk \in Walks(args.dir) : EndPass1(walk)
  \/ EndPass2

WalkSpec == Init /\ [][WalkNext]_vars

(* ------------------------------------------------------------------ *)
(* include_path in processes that share the cache                     *)
(* ------------------------------------------------------------------ *)
\* the directories the processes discover
RaceDirs == { {FAlpha, FBeta, FGroup}, {FBeta, FGroup, FSuper} }

\* the two include_task_folder calls of include_path
TwoPasses(R, walk1, walk2) ==
  include_task_folder(include_task_folder(R, walk1, 1, TRUE, FALSE).R,
                      walk2, 1, FALSE, FALSE).R

\* one load_from_cache call: the key joins the process's snapshot when it is there
Loaded(snap, file_name) ==
  IF load_from_cache(cache, file_name).present
  THEN Merge(snap, [k \in {file_name} |-> load_from_cache(cache, file_name).val])
  ELSE snap

OnlyProcs == UNCHANGED <<TASK_REGISTRY, GROUP_REGISTRY, ALL_TASKS, pc, todo, visited,
                         import_fail, args>>

\* include_path returns in process p with the registries R
Returned(p, R, walked) ==
  /\ procs' = [procs EXCEPT ![p] = [@ EXCEPT !.pc = "idle", !.R = R]]
  /\ last' = [op |-> "shared_include_path", err |-> "", proc |-> p,
              dir |-> procs[p].dir, use_cache |-> procs[p].use_cache,
              rewrite_cache |-> procs[p].rewrite_cache, snap |-> procs[p].snap,
              walked |-> walked, R |-> R]

\* a new process calls include_path and loads registry-TASK_REGISTRY
ProcLoadTasks(p, dir, use_cache, rewrite_cache) ==
  /\ procs[p].pc = "idle"
  /\ ops < MaxCalls
  /\ ops' = ops + 1
  /\ procs' = [procs EXCEPT ![p] =
                 [pc |-> "load_groups", dir |-> dir, use_cache |-> use_cache,
                  rewrite_cache |-> rewrite_cache,
                  snap |-> Loaded(EmptyDict, task_registry_file_name),
                  R |-> EmptyReg]]
  /\ last' = [op |-> "load", err |-> ""]
  /\ UNCHANGED cache
  /\ OnlyProcs

\* it loads registry-GROUP_REGISTRY
ProcLoadGroups(p) ==
  /\ procs[p].pc = "load_groups"
  /\ procs' = [procs EXCEPT ![p] =
                 [@ EXCEPT !.pc = "load_names",
                           !.snap = Loaded(@, cached_group_registry_file_name)]]
  /\ last' = [op |-> "load", err |-> ""]
  /\ UNCHANGED <<cache, ops>>
  /\ OnlyProcs

\* it loads registry-ALL_TASKS and returns the snapshots when all three are there
ProcLoadNames(p) ==
  /\ procs[p].pc = "load_names"
  /\ LET Decide(snap) ==
           IF RestoresFromCache(snap, procs[p].rewrite_cache)
           THEN /\ procs' = [procs EXCEPT ![p] =
                               [@ EXCEPT !.pc = "idle", !.snap = snap,
                                         !.R = RestoreRegistries(procs[p].R, snap)]]
                /\ last' = [op |-> "shared_include_path", err |-> "", proc |-> p,
                            dir |-> procs[p].dir, use_cache |-> procs[p].use_cache,
                            rewrite_cache |-> procs[p].rewrite_cache, snap |-> snap,
                            walked |-> FALSE,
                            R |-> RestoreRegistries(procs[p].R, snap)]
           ELSE /\ procs' = [procs EXCEPT ![p] = [@ EXCEPT !.pc = "walk", !.snap = snap]]
                /\ last' = [op |-> "load", err |-> ""]
     IN Decide(Loaded(procs[p].snap, cached_all_tasks_file_name))
  /\ UNCHANGED <<cache, ops>>
  /\ OnlyProcs

\* the two passes over the directory
ProcWalk(p, walk) ==
  /\ procs[p].pc = "walk"
  /\ LET Walked(R) ==
           IF WritesCache(procs[p].snap, procs[p].use_cache, procs[p].rewrite_cache)
           THEN /\ procs' = [procs EXCEPT ![p] = [@ EXCEPT !.pc = "save_tasks", !.R = R]]
                /\ last' = [op |-> "walk", err |-> ""]
           ELSE Returned(p, R, TRUE)
     IN Walked(TwoPasses(procs[p].R, walk, walk))
  /\ UNCHANGED <<cache, ops>>
  /\ OnlyProcs

\* save_to_cache of TASK_REGISTRY
ProcSaveTasks(p) ==
  /\ procs[p].pc = "save_tasks"
  /\ cache' = save_to_cache(cache, task_registry_file_name, procs[p].R.T)
  /\ procs' = [procs EXCEPT ![p] = [@ EXCEPT !.pc = "save_groups"]]
  /\ last' = [op |-> "save", err |-> ""]
  /\ UNCHANGED ops
  /\ OnlyProcs

\* save_to_cache of GROUP_REGISTRY
ProcSaveGroups(p) ==
  /\ procs[p].pc = "save_groups"
  /\ cache' = save_to_cache(cache, cached_group_registry_file_name, procs[p].R.G)
  /\ procs' = [procs EXCEPT ![p] = [@ EXCEPT !.pc = "save_names"]]
  /\ last' = [op |-> "save", err |-> ""]
  /\ UNCHANGED ops
  /\ OnlyProcs

\* save_to_cache of ALL_TASKS, and the return
ProcSaveNames(p) ==
  /\ procs[p].pc = "save_names"
  /\ cache' = save_to_cache(cache, cached_all_tasks_file_name, procs[p].R.A)
  /\ Returned(p, procs[p].R, TRUE)
  /\ UNCHANGED ops
  /\ OnlyProcs

SharedNext ==
  \E p \in Procs :
    \/ \E dir \in RaceDirs, use_cache \in BOOLEAN, rewrite_cache \in BOOLEAN :
         ProcLoadTasks(p, dir, use_cache, rewrite_cache)
    \/ ProcLoadGroups(p)
    \/ ProcLoadNames(p)
    \/ \E walk \in Walks(procs[p].dir) : ProcWalk(p, walk)
    \/ ProcSaveTasks(p)
    \/ ProcSaveGroups(p)
    \/ ProcSaveNames(p)

SharedSpec == Init /\ [][SharedNext]_vars

(* ------------------------------------------------------------------ *)
(* check_prompt_config called directly                                *)
(* ------------------------------------------------------------------ *)
\* a field that is absent or has one of the values
Optional(k, values) == {EmptyDict} \cup {[x \in {k} |-> v] : v \in values}

\* the use_prompt selectors; the last one matches no variation
Selectors ==
  { <<"promptsource", ":", "*">>, <<"templates", "/", "*", ".yaml">>,
    <<"*", "/", "q1", ".yaml">>, <<"promptsource", ":", "q1">> }

\* the configs handed to check_prompt_config
PromptConfigs ==
  { Merge(Merge(Merge(Merge(a, b), c), d), e) :
      a \in Optional("task", {Str(<<"alpha">>), Str(<<"mygroup", "_", "alpha">>),
                              List(<<El(<<"alpha">>)>>)}),
      b \in Optional("dataset_path", {<<"dp">>}),
      c \in Optional("dataset_name", {<<"alpha">>}),
      d \in Optional("use_prompt", Selectors),
      e \in Optional("output_type", {<<"loglikelihood">>}) }

\* check_prompt_config(config); prompt_list is what load_prompt_list returned
CheckPromptConfig(config) ==
  /\ Idle
  /\ LET Done(r) ==
           last' = [op |-> "check_prompt_config", config |-> config, err |-> r.err,
                    ret |-> r.val,
                    prompt_list |->
                      IF "use_prompt" \in DOMAIN config /\ "dataset_path" \in DOMAIN config
                      THEN load_prompt_list(config["use_prompt"]) ELSE <<>>]
     IN Done(check_prompt_config(config))
  /\ ops' = ops + 1
  /\ UNCHANGED <<TASK_REGISTRY, GROUP_REGISTRY, ALL_TASKS, cache>>
  /\ WalkerUnchanged

PromptNext == \E config \in PromptConfigs : CheckPromptConfig(config)

PromptSpec == Init /\ [][PromptNext]_vars

(* ------------------------------------------------------------------ *)
(* Registration called directly                                       *)
(* ------------------------------------------------------------------ *)
TaskNames == {<<"alpha">>, <<"mygroup", "_", "alpha">>, <<>>}

\* the configs handed to register_configurable_task
TaskConfigs ==
  { [task |-> Str(t), dataset_path |-> d] : t \in TaskNames, d \in {<<"dp">>, <<"q1">>} }
  \cup UNION { { [task |-> Str(t), dataset_path |-> <<"dp">>, group |-> g] :
                   g \in {Str(t), Str(<<"mygroup">>), List(<<El(t)>>)} } :
                 t \in TaskNames }

RegNext == \E config \in TaskConfigs : RegisterTask(config)

RegSpec == Init /\ [][RegNext]_vars

(* ------------------------------------------------------------------ *)
(* Properties                                                         *)
(* ------------------------------------------------------------------ *)
Range(f) == {f[x] : x \in DOMAIN f}

Resolved == last.op = "get_task_dict"

\* the plain names of the request list of the last get_task_dict call
RequestedNames ==
  {last.task_name_list[i].name :
     i \in {j \in DOMAIN last.task_name_list : last.task_name_list[j].kind = "str"}}

\* the raw-{task_name} keys of a cache
RawKeys(c) == {k \in DOMAIN c : k[1] = "raw-"}

\* the config a task instance runs with
EffectiveConfig(inst) == Merge(inst.cls.CONFIG, inst.config)

\* a request list that names a registered task and holds an instance of its factory
NamedAndBuilt ==
  \E i, j \in DOMAIN last.task_name_list :
    /\ last.task_name_list[i].kind = "str"
    /\ last.task_name_list[j].kind = "task"
    /\ last.task_name_list[i].name \in DOMAIN TASK_REGISTRY
    /\ last.task_name_list[j].obj.cls = TASK_REGISTRY[last.task_name_list[i].name]

\* C1: a call that requests a registered task by name and as an instance built
\* from that task's registered factory fails with the assertion of disjoint
\* names and returns no mapping.
C1_DuplicateNameFails ==
  (Resolved /\ NamedAndBuilt) => (last.err = "AssertionError" /\ last.ret = EmptyDict)

\* a group of the registry whose members are all registered plain tasks
PlainGroup(g) ==
  /\ g \in DOMAIN GROUP_REGISTRY
  /\ \A m \in Range(GROUP_REGISTRY[g]) :
       m \in DOMAIN TASK_REGISTRY /\ m \notin DOMAIN GROUP_REGISTRY

GroupAlone(g) ==
  /\ Resolved
  /\ last.task_name_list = <<ReqStr(g)>>
  /\ RawKeys(last.cache0) = {}
  /\ PlainGroup(g)

\* C2: from a cache without raw entries, get_task_dict([group]) for a group of
\* registered plain tasks returns exactly the member names, each mapped to the
\* pair (group, instance of the member's factory).
C2_GroupOfPlainTasks ==
  \A g \in DOMAIN GROUP_REGISTRY :
    GroupAlone(g) =>
      /\ last.err = ""
      /\ DOMAIN last.ret = Range(GROUP_REGISTRY[g])
      /\ \A m \in DOMAIN last.ret :
           /\ last.ret[m].groups = <<g>>
           /\ last.ret[m].inst.kind = "instance"
           /\ last.ret[m].inst.cls = TASK_REGISTRY[m]

C2_Witness ==
  /\ GroupAlone(<<"mygroup">>)
  /\ DOMAIN last.ret = {<<"alpha">>, <<"beta">>}

\* the instances get_task_dict built or fetched for names and inline records
BuiltEntries == Range(last.reg) \cup Range(last.cfg)

\* C3: every instance returned for a plain name, an inline config record or a
\* member of a requested group runs with the caller's overrides in its config.
C3_OverridesEverywhere ==
  (Resolved /\ last.err = "") =>
    \A e \in BuiltEntries :
      e.inst.kind = "instance" =>
        \A k \in DOMAIN last.kwargs :
          /\ k \in DOMAIN EffectiveConfig(e.inst)
          /\ EffectiveConfig(e.inst)[k] = last.kwargs[k]

\* C4: every object get_task_dict saves under raw-{name} is a mapping whose only
\* key is that name.
C4_SavesSingleEntry ==
  Resolved =>
    \A i \in DOMAIN last.saves : DOMAIN last.saves[i].obj = {last.saves[i].name}

\* the requested plain names that are in neither registry
UnknownRequested ==
  {n \in RequestedNames : n \notin DOMAIN TASK_REGISTRY /\ n \notin DOMAIN GROUP_REGISTRY}

\* C5 as stated: a call that requests a name of neither registry fails with the
\* unknown-task error and returns no mapping, whatever the cache holds.
C5_UnknownAlwaysFails ==
  (Resolved /\ UnknownRequested # {}) => (last.err = "KeyError" /\ last.ret = EmptyDict)

\* no raw entry of the cache the call started from has the name as a key
NotCached(n) ==
  \A k \in RawKeys(last.cache0) : k # cache_key(n) /\ n \notin DOMAIN last.cache0[k]

\* C5 amended: a call that requests a name of neither registry fails with the
\* unknown-task error and returns no mapping when no raw entry of the cache
\* holds that name.
C5_UnknownFailsUncached ==
  (Resolved /\ \E n \in UnknownRequested : NotCached(n)) =>
    (last.err = "KeyError" /\ last.ret = EmptyDict)

C5_Witness ==
  /\ Resolved
  /\ last.err = "KeyError"
  /\ \E n \in UnknownRequested : NotCached(n)
  /\ RawKeys(last.cache0) # {}

\* C6: one top-level get_task_dict call invokes the registry factory of a task
\* name at most once, nested group expansions included.
C6_FactoryAtMostOnce ==
  Resolved =>
    \A i, j \in DOMAIN last.calls :
      i # j => last.calls[i].name # last.calls[j].name

\* beta is a member of two groups that are both members of the requested group
C6_Witness ==
  /\ Resolved
  /\ last.task_name_list = <<ReqStr(<<"super">>)>>
  /\ <<"super">> \in DOMAIN GROUP_REGISTRY
  /\ GROUP_REGISTRY[<<"super">>] = << <<"mygroup">>, <<"sub">> >>
  /\ <<"beta">> \in Range(GROUP_REGISTRY[<<"mygroup">>])
  /\ <<"beta">> \in Range(GROUP_REGISTRY[<<"sub">>])
  /\ cache_key(<<"beta">>) \notin DOMAIN last.cache0
  /\ Len(last.calls) = 1
  /\ last.err = ""

\* a file that defines a group: its task field is a sequence
IsGroupDef(f) ==
  f.yaml /\ f.load = "ok" /\ "task" \in DOMAIN f.config /\ ~f.config["task"].str

\* a file that defines the plain task t without prompt variations
IsPlainDef(f, t) ==
  /\ f.yaml /\ f.load = "ok" /\ "task" \in DOMAIN f.config
  /\ f.config["task"] = Str(t)
  /\ "use_prompt" \notin DOMAIN f.config

\* the inline records of a group definition that name a task
NamedOverrides(f) ==
  {f.config["task"].l[i].cfg :
     i \in {j \in DOMAIN f.config["task"].l :
              /\ ~f.config["task"].l[j].isStr
              /\ "task" \in DOMAIN f.config["task"].l[j].cfg}}

FileStep == last.op = "file"

\* C7: in every walk order, pass 1 leaves group definitions alone and pass 2
\* starts after pass 1 has visited every file; when pass 2 expands an inline
\* record that names a plain task of another file of the directory, the task is
\* registered and the synthesized task is that file's config under the record.
C7_GroupsAfterAllTasks ==
  /\ (FileStep /\ last.pass = "pass1" /\ IsGroupDef(last.file)) =>
       (Registries = last.before /\ last.err = "")
  /\ pc = "pass2" =>
       {visited[i] : i \in 1..Cardinality(args.dir)} = args.dir
  /\ (FileStep /\ last.pass = "pass2" /\ IsGroupDef(last.file)) =>
       \A o \in {n \in NamedOverrides(last.file) : "use_prompt" \notin DOMAIN n} :
         \A f \in args.dir \ {last.file} :
           IsPlainDef(f, o["task"].s) =>
             LET t == o["task"].s
                 synth == Join(last.file.config["group"].s, t)
             IN /\ t \in DOMAIN last.before.T
                /\ last.before.T[t].CONFIG = f.config
                /\ synth \in DOMAIN TASK_REGISTRY
                /\ TASK_REGISTRY[synth].CONFIG =
                     Merge(Merge(f.config, o),
                           [group |-> last.file.config["group"], task |-> Str(synth)])

\* pass 1 met the group file before the file of the task it overrides
C7_Witness ==
  /\ FileStep
  /\ last.pass = "pass2"
  /\ last.file = FOver
  /\ last.err = ""
  /\ visited[1] = FOver
  /\ <<"mygroup", "_", "alpha">> \in DOMAIN TASK_REGISTRY

Registered == last.op = "register_configurable_task"

\* C8: register_configurable_task on a definition whose task and group are the
\* same string fails with the collision error.
C8_SameNameCollides ==
  (Registered /\ "group" \in DOMAIN last.config
              /\ last.config["group"] = last.config["task"]) =>
    last.err = "ValueError"

C8_Witness ==
  /\ Registered
  /\ last.config["task"] = Str(<<"mygroup", "_", "alpha">>)
  /\ "group" \in DOMAIN last.config
  /\ last.config["group"] = last.config["task"]
  /\ last.err = "ValueError"

\* C9: a definition whose processing raises during the walk leaves the three
\* registries as they were before it was processed.
C9_FailedDefinitionSkipped ==
  (FileStep /\ last.err # "") => Registries = last.before

\* the number of the pass the walk is in
PassNumber == IF pc = "pass1" THEN 1 ELSE 2

\* C10: no error of a single file leaves include_task_folder: the error is
\* logged, the walk loses no file and goes on to the end of the pass.
C10_WalkSurvivesFailures ==
  /\ pc # "raised"
  /\ (FileStep /\ last.err # "") => last.outcome \in {"debug", "warning"}
  /\ Walking => Len(visited) + Len(todo) = PassNumber * Cardinality(args.dir)
  /\ last.op = "include_path" => last.err = ""

\* two files failed and the file after them was registered
C10_Witness ==
  /\ pc = "pass1"
  /\ visited = <<FImport, FPromptNoData, FAlpha>>
  /\ todo = <<>>
  /\ import_fail
  /\ <<"alpha">> \in DOMAIN TASK_REGISTRY

\* a file that defines one task and has no prompt variations
IsTaskFile(f) ==
  /\ f.yaml /\ f.load = "ok" /\ "task" \in DOMAIN f.config
  /\ f.config["task"].str
  /\ "use_prompt" \notin DOMAIN f.config

\* the names a group definition lists
ListedNames(f) == {f.config["task"].l[i].name : i \in DOMAIN f.config["task"].l}

\* a group definition that lists bare names only
BareGroupFile(f) ==
  IsGroupDef(f) /\ \A i \in DOMAIN f.config["task"].l : f.config["task"].l[i].isStr

\* dir holds task files and the one group file g, which lists those tasks
TasksAndGroup(dir, g) ==
  /\ g \in dir
  /\ BareGroupFile(g)
  /\ \A f \in dir \ {g} : IsTaskFile(f)
  /\ ListedNames(g) = {f.config["task"].s : f \in dir \ {g}}

\* a task file that puts its task into the group named n
DeclaresGroup(f, n) ==
  "group" \in DOMAIN f.config /\ n \in Range(GroupNames(f.config))

\* the first include_path of a process has walked its directory: the registries
\* and the cache were empty when it started
FirstDiscovery ==
  last.op = "include_path" /\ last.walked /\ ops = 1 /\ pc = "idle"

\* the group of g holds the listed names once each, and every name is known
ListedOnce(g) ==
  LET group == g.config["group"].s
  IN /\ group \in DOMAIN GROUP_REGISTRY
     /\ Range(GROUP_REGISTRY[group]) = ListedNames(g)
     /\ Len(GROUP_REGISTRY[group]) = Cardinality(ListedNames(g))
     /\ ListedNames(g) \cup {group} \subseteq ALL_TASKS

\* C11 as stated: after the first include_path over task files and one group file
\* that lists them by bare name, the group's list holds each listed name once and
\* ALL_TASKS holds the task names and the group name.
C11_GroupListsEachOnce ==
  FirstDiscovery =>
    \A g \in last.dir : TasksAndGroup(last.dir, g) => ListedOnce(g)

\* C11 amended: the same, when no task file declares the group of the group file
\* in its own group field.
C11_GroupListsEachOnceUndeclared ==
  FirstDiscovery =>
    \A g \in last.dir :
      (/\ TasksAndGroup(last.dir, g)
       /\ \A f \in last.dir \ {g} : ~DeclaresGroup(f, g.config["group"].s))
        => ListedOnce(g)

C11_Witness ==
  /\ FirstDiscovery
  /\ last.dir = {FAlpha, FBeta, FGroup}
  /\ GROUP_REGISTRY[<<"mygroup">>] = << <<"alpha">>, <<"beta">> >>
  /\ GROUP_REGISTRY[<<"sub">>] = << <<"beta">> >>

\* a group definition was expanded by pass 2 without an error
GroupExpanded ==
  FileStep /\ last.pass = "pass2" /\ IsGroupDef(last.file) /\ last.err = ""

\* the inline records of the expanded definition that name a registered task
OverridesOfRegistered ==
  {o \in NamedOverrides(last.file) : o["task"].str /\ o["task"].s \in DOMAIN last.before.T}

\* the config registered under group_task is base under o, with group and task forced
MergedAsSpecified(o) ==
  LET group == last.file.config["group"]
      synth == Join(group.s, o["task"].s)
      base == last.before.T[o["task"].s].CONFIG
  IN /\ synth \in DOMAIN TASK_REGISTRY
     /\ LET c == TASK_REGISTRY[synth].CONFIG
        IN /\ c["group"] = group
           /\ c["task"] = Str(synth)
           /\ DOMAIN c = DOMAIN base \cup DOMAIN o \cup {"group", "task"}
           /\ \A k \in DOMAIN c \ {"group", "task"} :
                IF k \in DOMAIN o THEN c[k] = o[k]
                ELSE k \in DOMAIN base /\ c[k] = base[k]

\* C12 as stated: for every inline record that names a registered task, the
\* registered config has the group's name, the task group_task, the record's
\* other fields, and the base config's fields where the record has none.
C12_OverrideMergePrecedence ==
  GroupExpanded => \A o \in OverridesOfRegistered : MergedAsSpecified(o)

\* neither the record nor the base config asks for prompt variations
NoVariations(o) ==
  /\ "use_prompt" \notin DOMAIN o
  /\ "use_prompt" \notin DOMAIN last.before.T[o["task"].s].CONFIG

\* C12 amended: the same, for the inline records whose merged config has no
\* use_prompt field.
C12_OverrideMergeWithoutPrompt ==
  GroupExpanded =>
    \A o \in OverridesOfRegistered : NoVariations(o) => MergedAsSpecified(o)

\* the record's dataset_path replaced alpha's and its group was replaced
C12_Witness ==
  /\ GroupExpanded
  /\ last.file = FOverData
  /\ <<"alpha">> \in DOMAIN last.before.T
  /\ last.before.T[<<"alpha">>].CONFIG["dataset_path"] = <<"dp">>
  /\ TASK_REGISTRY[<<"mygroup", "_", "alpha">>].CONFIG["dataset_path"] = <<"q1">>
  /\ TASK_REGISTRY[<<"mygroup", "_", "alpha">>].CONFIG["group"] = Str(<<"mygroup">>)

\* the last call registered a definition whose task name already had a factory
\* built from another config
Reregistered ==
  /\ Registered
  /\ "task" \in DOMAIN last.config
  /\ last.config["task"].str
  /\ last.config["task"].s \in DOMAIN last.before.T
  /\ last.before.T[last.config["task"].s].CONFIG # last.config

C14_NamespaceIsUnion ==
  ALL_TASKS = DOMAIN TASK_REGISTRY \cup DOMAIN GROUP_REGISTRY

\* a new process restored the snapshots of an earlier discovery
C14_Witness ==
  /\ last.op = "include_path"
  /\ ~last.walked
  /\ last.before = EmptyReg
  /\ DOMAIN TASK_REGISTRY # {}
  /\ <<"mygroup">> \in DOMAIN GROUP_REGISTRY
  /\ <<"sub">> \in DOMAIN GROUP_REGISTRY
  /\ ALL_TASKS = cache[cached_all_tasks_file_name]

\* C15: a get_task_dict call leaves TASK_REGISTRY, GROUP_REGISTRY and ALL_TASKS
\* as they were, whatever it builds from inline records or is handed as instances.
C15_ResolutionKeepsRegistries ==
  [][(last'.op = "get_task_dict" /\ ops' = ops + 1) =>
       UNCHANGED <<TASK_REGISTRY, GROUP_REGISTRY, ALL_TASKS>>]_vars

\* the result holds a task built from an inline record and a registered one, and
\* the name of the former is in no registry
C15_Witness ==
  /\ Resolved
  /\ last.err = ""
  /\ <<"dp", "_", "alpha">> \in DOMAIN last.cfg
  /\ <<"dp", "_", "alpha">> \in DOMAIN last.ret
  /\ <<"alpha">> \in DOMAIN last.reg
  /\ <<"dp", "_", "alpha">> \notin ALL_TASKS
  /\ <<"dp", "_", "alpha">> \notin DOMAIN TASK_REGISTRY

\* the registries a discovery of dir builds from empty registries
Discovered(dir) == {TwoPasses(EmptyReg, walk, walk) : walk \in Walks(dir)}

\* the snapshot a call loaded holds all three keys and is not a discovery of the
\* directory the call was given
StaleOrMixed(snap, dir) ==
  /\ caches_exist(snap)
  /\ \A R \in Discovered(dir) :
       \/ snap[task_registry_file_name] # R.T
       \/ snap[cached_group_registry_file_name] # R.G
       \/ snap[cached_all_tasks_file_name] # R.A

\* the three keys the call loaded were not written by one discovery
Mixed(snap) ==
  /\ caches_exist(snap)
  /\ \A dir \in RaceDirs : StaleOrMixed(snap, dir)

SharedReturn == last.op = "shared_include_path"

\* C16: an include_path call with rewrite_cache false that finds a stale or
\* mixed snapshot in the shared cache ends with the registries of a discovery of
\* its directory.
C16_StaleSnapshotHeals ==
  (SharedReturn /\ ~last.rewrite_cache /\ StaleOrMixed(last.snap, last.dir)) =>
    last.R \in Discovered(last.dir)

\* check_prompt_config was called with use_prompt and the prompt subsystem
\* returned distinct identifiers
VariationsLoaded ==
  /\ last.op = "check_prompt_config"
  /\ "use_prompt" \in DOMAIN last.config
  /\ "dataset_path" \in DOMAIN last.config
  /\ \A i, j \in DOMAIN last.prompt_list :
       i # j => last.prompt_list[i] # last.prompt_list[j]

\* one config per variation, with the variation and the generation output type
OnePerVariation ==
  /\ last.err = ""
  /\ Len(last.ret) = Len(last.prompt_list)
  /\ \A i \in DOMAIN last.ret :
       /\ last.ret[i]["use_prompt"] = last.prompt_list[i]
       /\ last.ret[i]["output_type"] = <<"generate_until">>

DistinctTaskNames ==
  \A i, j \in DOMAIN last.ret : i # j => last.ret[i]["task"] # last.ret[j]["task"]

\* C17 as stated: for N distinct variation identifiers check_prompt_config
\* returns N configs with pairwise distinct task names, each with its own
\* variation as use_prompt and output_type generate_until.
C17_OneConfigPerVariation ==
  VariationsLoaded => (OnePerVariation /\ DistinctTaskNames)

\* what is left of an identifier in the task name
FileName(v) ==
  IF \E i \in 1..Len(v) : v[i] = ".yaml" THEN LastSegment(v) ELSE v

\* the task of the config is a string or absent, and no two identifiers are files
\* of the same name
NamesCanDiffer ==
  /\ "task" \in DOMAIN last.config => last.config["task"].str
  /\ \A i, j \in DOMAIN last.prompt_list :
       i # j => FileName(last.prompt_list[i]) # FileName(last.prompt_list[j])

\* C17 amended: the same, for a config whose task is not a sequence and for
\* identifiers that differ after the directories of file identifiers are dropped.
C17_OneConfigPerFileName ==
  (VariationsLoaded /\ NamesCanDiffer) => (OnePerVariation /\ DistinctTaskNames)

\* two files of one directory gave two task names
C17_Witness ==
  /\ VariationsLoaded
  /\ NamesCanDiffer
  /\ last.prompt_list =
       << <<"templates", "/", "q1", ".yaml">>, <<"templates", "/", "p1", ".yaml">> >>
  /\ "task" \notin DOMAIN last.config
  /\ last.ret[1]["task"] = Str(<<"dp", "_", "alpha", "_", "q1", ".yaml">>)
  /\ last.ret[2]["task"] = Str(<<"dp", "_", "alpha", "_", "p1", ".yaml">>)

\* the names reachable from n through group membership in at most k steps
RECURSIVE Reach(_, _)
Reach(S, k) ==
  IF k = 0 THEN S
  ELSE Reach(S \cup UNION {Range(GROUP_REGISTRY[g]) : g \in S \cap DOMAIN GROUP_REGISTRY},
             k - 1)

\* the members of g, their members, and so on
Below(g) == Reach(Range(GROUP_REGISTRY[g]), Cardinality(DOMAIN GROUP_REGISTRY))

\* no group is a member of itself, directly or through other groups
Acyclic == \A g \in DOMAIN GROUP_REGISTRY : g \notin Below(g)

\* C18 as stated: every get_task_dict call ends by returning a mapping or raising
\* an error of its own; its nested calls never use up the call stack.
C18_ResolutionEndsByItself ==
  Resolved => last.err # "RecursionError"

\* C18 amended: when no group of the registry is a member of itself, directly or
\* through other groups, a get_task_dict call returns a mapping or fails with the
\* unknown-task error or the duplicate-name assertion.
C18_AcyclicResolutionEnds ==
  (Resolved /\ Acyclic) => last.err \in {"", "KeyError", "AssertionError"}

\* a group of two groups is resolved through nested calls and returns a mapping
C18_Witness ==
  /\ Resolved
  /\ Acyclic
  /\ last.err = ""
  /\ last.task_name_list = <<ReqStr(<<"super">>)>>
  /\ GROUP_REGISTRY[<<"super">>] = << <<"mygroup">>, <<"sub">> >>
  /\ {<<"mygroup">>, <<"sub">>, <<"beta">>} \subseteq DOMAIN last.ret


(* ------------------------------------------------------------------ *)
(* C19: include_path with use_cache = False                           *)
(* ------------------------------------------------------------------ *)
\* the step is an include_path call made with use_cache = False
UncachedIncludePath ==
  /\ ops' = ops + 1
  /\ last'.op = "include_path"
  /\ ~last'.use_cache

\* the registries the two passes over dir can leave, started from R
WalkedFrom(R, dir) == {TwoPasses(R, walk, walk) : walk \in Walks(dir)}

\* C19: with use_cache = False include_path does not depend on the cache: whatever
\* the three registry- keys hold, it walks task_dir twice, ends with the registries
\* the walk gives, and leaves the cache as it was.
C19_UncachedIgnoresCache ==
  [][UncachedIncludePath =>
       /\ last'.walked
       /\ Reg(TASK_REGISTRY', GROUP_REGISTRY', ALL_TASKS')
            \in WalkedFrom(Registries, last'.dir)
       /\ cache' = cache]_vars

\* the part of C19 that the code keeps: nothing is saved, and the directory is
\* walked exactly when rewrite_cache is set or one of the three keys is empty
C19_UncachedWritesNothing ==
  [][UncachedIncludePath =>
       /\ cache' = cache
       /\ last'.walked <=>
            \/ last'.rewrite_cache
            \/ \E k \in {task_registry_file_name, cached_group_registry_file_name} :
                 k \notin DOMAIN cache \/ DOMAIN cache[k] = {}
            \/ cached_all_tasks_file_name \notin DOMAIN cache
            \/ cache[cached_all_tasks_file_name] = {}
       /\ last'.walked =>
            Reg(TASK_REGISTRY', GROUP_REGISTRY', ALL_TASKS')
              \in WalkedFrom(Registries, last'.dir)]_vars

\* an include_path(use_cache = False) call that found a snapshot and did not walk
C19_RestoredUncached ==
  /\ last.op = "include_path"
  /\ ~last.use_cache
  /\ ~last.walked
  /\ last.before = EmptyReg
  /\ Registries \notin WalkedFrom(EmptyReg, last.dir)


(* ------------------------------------------------------------------ *)
(* C20: the order in which the walk meets the files                   *)
(* ------------------------------------------------------------------ *)
\* the files of dir that define a plain task, and those that define a group
TaskDefs(dir) ==
  {f \in dir : /\ f.yaml /\ f.load = "ok" /\ "task" \in DOMAIN f.config
               /\ f.config["task"].str}
GroupDefs(dir) == {f \in dir : IsGroupDef(f) /\ "group" \in DOMAIN f.config}

\* the group names a file of dir defines or declares
GroupNamesIn(dir) ==
  UNION {Range(GroupNames(f.config)) : f \in {d \in dir : "group" \in DOMAIN d.config}}

\* no two definitions of dir give the same task name or define the same group,
\* and no name is both a task and a group
DistinctNames(dir) ==
  /\ \A f, g \in TaskDefs(dir) : f # g => f.config["task"].s # g.config["task"].s
  /\ \A f, g \in GroupDefs(dir) : f # g => f.config["group"] # g.config["group"]
  /\ \A f \in TaskDefs(dir) : f.config["task"].s \notin GroupNamesIn(dir)

\* the keys of TASK_REGISTRY, the members of every group as a set, and ALL_TASKS
View(R) ==
  [T |-> DOMAIN R.T, G |-> [g \in DOMAIN R.G |-> Range(R.G[g])], A |-> R.A]

\* one fixed order of the files of dir
FixedWalk(dir) == CHOOSE walk \in Walks(dir) : TRUE

\* the bare names a group definition lists
BareListed(g) ==
  {g.config["task"].l[i].name :
     i \in {j \in DOMAIN g.config["task"].l : g.config["task"].l[j].isStr}}

StartsWith(n, prefix) ==
  Len(n) >= Len(prefix) /\ SubSeq(n, 1, Len(prefix)) = prefix

\* n is a name that only pass 2 can register: the group of a group definition, or
\* the task <group>_<task> of one of its inline records
LateName(n, dir) ==
  \E g \in GroupDefs(dir) :
    \/ n = g.config["group"].s
    \/ StartsWith(n, g.config["group"].s \o <<"_">>)

\* no group definition of dir lists a name that only pass 2 registers
ListsEarlyNamesOnly(dir) ==
  \A g \in GroupDefs(dir) : \A n \in BareListed(g) : ~LateName(n, dir)

\* C20 as stated: when the task and group names defined in a directory are distinct,
\* the keys of TASK_REGISTRY, each group's members as a set and ALL_TASKS after a
\* full discovery are the same for every order of the two walks, also when a group
\* definition lists another group by bare name.
C20_OrderIndependent ==
  (FirstDiscovery /\ DistinctNames(last.dir)) =>
     View(Registries)
       = View(TwoPasses(EmptyReg, FixedWalk(last.dir), FixedWalk(last.dir)))

\* C20 amended: the same, for directories whose group definitions list by bare name
\* only names that pass 1 registers (plain tasks, groups declared in a task's group
\* field), not groups or tasks that another group definition creates in pass 2.
C20_OrderIndependentOfEarlyNames ==
  (FirstDiscovery /\ DistinctNames(last.dir) /\ ListsEarlyNamesOnly(last.dir)) =>
     View(Registries)
       = View(TwoPasses(EmptyReg, FixedWalk(last.dir), FixedWalk(last.dir)))

\* a first discovery over two task definitions and a group definition that lists
\* them, one of the tasks declaring a group of its own
C20_Witness ==
  /\ FirstDiscovery
  /\ last.dir = {FAlpha, FBeta, FGroup}
  /\ DistinctNames(last.dir) /\ ListsEarlyNamesOnly(last.dir)
  /\ Range(GROUP_REGISTRY[<<"mygroup">>]) = {<<"alpha">>, <<"beta">>}
  /\ Range(GROUP_REGISTRY[<<"sub">>]) = {<<"beta">>}

====
